---- MODULE Spec2Model ----
(***************************************************************************)
(* Model of the YouTube tool kit (tools/google/youtube_tools.py): the     *)
(* identifier extractor, the channel lookup and the four paginated         *)
(* aggregation operations, together with the upstream data API they call.  *)
(*                                                                         *)
(* A Python string is a sequence of one-character strings.  An optional    *)
(* value (Python None or a value) is a sequence of length at most one:     *)
(* None is <<>> and the value v is <<v>>.                                   *)
(***************************************************************************)
EXTENDS Integers, Sequences, FiniteSets, TLC

VARIABLES
    pc,               \* "idle" | "loop" (inside the while loop) | "done"
    call,             \* the invocation: [op, arg, max_results] as passed by the caller
    video_ids,        \* get_video_info's local video_ids (reassigned by the extractor branch)
    lst,              \* the accumulated records; each record is its class name
    total_results,    \* local total_results
    next_page_token,  \* local next_page_token: None or Some(page)
    request,          \* the last request built for the upstream
    response,         \* the upstream's reply to it
    requests,         \* number of upstream requests issued by this invocation
    result,           \* what the invocation gave back to its caller
    upstream_pages,   \* number of pages the upstream holds for this query
    endless           \* the upstream's last page carries a cursor again: it never runs out

vars == <<pc, call, video_ids, lst, total_results, next_page_token, request,
          response, requests, result, upstream_pages, endless>>

----------------------------------------------------------------------------
(* Bounds of the model *)

\* longest run of characters after the URL prefix of an extractor input
MaxTail == 13
\* longest channel_id handed to get_channel_info
MaxChanLen == 3
\* most pages the upstream holds for one query
MaxPages == 3
\* largest totalResults figure the upstream reports
MaxTotal == 1

(* Program constants *)

\* the upstream page-size ceiling in min(50, ...)
PageCeiling == 50
\* the {11} of both regular expressions
IdLen == 11

----------------------------------------------------------------------------
(* Optional values and small helpers *)

None == <<>>
Some(v) == <<v>>

Min(a, b) == IF a < b THEN a ELSE b

\* requests issued so far, counted exactly up to MaxPages + 1
CountRequest(n) == IF n <= MaxPages THEN n + 1 ELSE n

----------------------------------------------------------------------------
(* Strings *)

Https == <<"h","t","t","p","s",":","/","/">>
Http  == <<"h","t","t","p",":","/","/">>
Www   == <<"w","w","w",".">>
Watch == <<"y","o","u","t","u","b","e",".","c","o","m","/","w","a","t","c","h","?","v","=">>
Short == <<"y","o","u","t","u",".","b","e","/">>

\* the character class [a-zA-Z0-9_-]
IdChars ==
    {"a","b","c","d","e","f","g","h","i","j","k","l","m",
     "n","o","p","q","r","s","t","u","v","w","x","y","z",
     "A","B","C","D","E","F","G","H","I","J","K","L","M",
     "N","O","P","Q","R","S","T","U","V","W","X","Y","Z",
     "0","1","2","3","4","5","6","7","8","9","_","-"}

\* s has the literal lit at position i
LitAt(s, i, lit) ==
    /\ i + Len(lit) - 1 <= Len(s)
    /\ \A k \in 1..Len(lit) : s[i + k - 1] = lit[k]

\* ([a-zA-Z0-9_-]{11}) matches s at position i
IdRunAt(s, i) ==
    /\ i + IdLen - 1 <= Len(s)
    /\ \A k \in 0..(IdLen - 1) : s[i + k] \in IdChars

\* (?:youtube\.com/watch\?v=|youtu\.be/)([a-zA-Z0-9_-]{11}) at position i:
\* the position where group 1 starts, 0 when there is no match
HostThenId(s, i) ==
    IF LitAt(s, i, Watch) /\ IdRunAt(s, i + Len(Watch)) THEN i + Len(Watch)
    ELSE IF LitAt(s, i, Short) /\ IdRunAt(s, i + Len(Short)) THEN i + Len(Short)
    ELSE 0

\* (?:www\.)? followed by the rest, at position i
WwwThenHost(s, i) ==
    IF LitAt(s, i, Www) /\ HostThenId(s, i + Len(Www)) # 0
    THEN HostThenId(s, i + Len(Www))
    ELSE HostThenId(s, i)

\* url_pattern.match(s): the start of group 1, 0 when the pattern does not
\* match at the start of s
UrlMatch(s) ==
    IF LitAt(s, 1, Https) /\ WwwThenHost(s, 1 + Len(Https)) # 0
    THEN WwwThenHost(s, 1 + Len(Https))
    ELSE IF LitAt(s, 1, Http) /\ WwwThenHost(s, 1 + Len(Http)) # 0
    THEN WwwThenHost(s, 1 + Len(Http))
    ELSE WwwThenHost(s, 1)

\* id_pattern.match(s) with id_pattern = ^[a-zA-Z0-9_-]{11}
IdPatternMatch(s) == IdRunAt(s, 1)

\* extreact_video_id(input_str): Some(id) or None
extreact_video_id(input_str) ==
    IF UrlMatch(input_str) # 0
    THEN Some(SubSeq(input_str, UrlMatch(input_str), UrlMatch(input_str) + IdLen - 1))
    ELSE IF IdPatternMatch(input_str) THEN Some(input_str)
    ELSE None

\* s.startswith(prefix)
StartsWith(s, prefix) == LitAt(s, 1, prefix)

----------------------------------------------------------------------------
(* Inputs *)

IdSample == <<"a","Z","9","_","-">>

\* k characters, all of the id class except a "!" at position j (j = 0: none)
Chars(k, j) == [i \in 1..k |-> IF i = j THEN "!" ELSE IdSample[(i % 5) + 1]]

ExtractorInputs ==
    { lead \o scheme \o www \o host \o Chars(k, j) :
        lead \in {<<>>, <<"!">>}, scheme \in {<<>>, Http, Https},
        www \in {<<>>, Www}, host \in {<<>>, Watch, Short},
        k \in 0..MaxTail, j \in 0..MaxTail }

ChanChars == {"U", "C", "@", "x"}

ChannelIdInputs == UNION { [1..n -> ChanChars] : n \in 0..MaxChanLen }

VideoIdInputs ==
    { <<>>, <<"a">>, <<"!">>, Chars(IdLen, 0), Chars(IdLen + 1, 0), Chars(IdLen, 3),
      Short \o Chars(IdLen, 0), Https \o Www \o Watch \o Chars(IdLen, 0),
      Short \o Chars(IdLen - 1, 0) }

MaxResultsInputs ==
    { -1, 0, 1, 2, PageCeiling - 1, PageCeiling, PageCeiling + 1, 4 * PageCeiling }

\* the upstream holds 1..MaxPages pages, or it never runs out of pages: each
\* shape is <<number of pages, whether the last page carries a cursor again>>
UpstreamShapes == { <<p, FALSE>> : p \in 1..MaxPages } \cup { <<1, TRUE>> }

SearchOps == {"search_channel", "search_playlist", "search_videos"}
AggOps == SearchOps \cup {"get_video_info"}

----------------------------------------------------------------------------
(* Records exchanged with the caller and with the upstream *)

NoResult ==
    [kind |-> "none", total_results |-> 0, records |-> <<>>, value |-> None, text |-> ""]

\* variant: the total is recomputed from the accumulated records
Envelope_Recount(total, records) ==
    [kind |-> "envelope", total_results |-> Len(records), records |-> records,
     value |-> None, text |-> ""]

\* XxxResults(total_results=..., xxx=lst).model_dump_json()
Envelope(total, records) ==
    [kind |-> "envelope", total_results |-> total, records |-> records,
     value |-> None, text |-> ""]

\* a bare string returned in place of JSON
ErrorString(text) ==
    [kind |-> "string", total_results |-> 0, records |-> <<>>, value |-> None, text |-> text]

\* an exception leaving the operation; the locals, lst included, are lost
Raised(text) ==
    [kind |-> "exception", total_results |-> 0, records |-> <<>>, value |-> None, text |-> text]

\* the return value of extreact_video_id
Returned(v) ==
    [kind |-> "value", total_results |-> 0, records |-> <<>>, value |-> v, text |-> ""]

\* ChannelInfo(...).model_dump_json()
ChannelJson ==
    [kind |-> "json", total_results |-> 0, records |-> <<"ChannelInfo">>, value |-> None, text |-> ""]

NoRequest ==
    [resource |-> "none", type |-> None, id |-> None, forHandle |-> None,
     maxResults |-> None, maxResulst |-> None, pageToken |-> None]

NoResponse ==
    [status |-> "none", items |-> <<>>, totalResults |-> 0, nextPageToken |-> None]

\* request.execute() raised
ErrorReply ==
    [status |-> "error", items |-> <<>>, totalResults |-> 0, nextPageToken |-> None]

----------------------------------------------------------------------------
(* The upstream data API *)

\* n items; item b lacks a field the record needs (b = 0: every item is complete)
Items(n, b) == [i \in 1..n |-> i # b]

\* the page sizes tried, out of 0..limit
ItemCounts(limit) == { n \in 0..limit : n = 0 \/ n = 12 \/ n = limit }

\* the page a request asks for
PageOf(token) == IF token = None THEN 1 ELSE token[1]

\* the cursor the upstream attaches to page k
NextCursor(k) ==
    IF k < upstream_pages THEN Some(k + 1)
    ELSE IF endless THEN Some(1)
    ELSE None

\* the most items the upstream puts in the reply to req: the maxResults it
\* was sent, the ceiling when it was sent none
PageLimit(req) == IF req.maxResults = None THEN PageCeiling ELSE req.maxResults[1]

\* what request.execute() can give for req
Replies(req) ==
    {ErrorReply} \cup
    UNION { { [status |-> "ok", items |-> Items(n, b), totalResults |-> t,
               nextPageToken |-> NextCursor(PageOf(req.pageToken))] :
                b \in {0, 1, n}, t \in 0..MaxTotal } :
            n \in ItemCounts(PageLimit(req)) }

\* what request.execute() can give for a channels().list request
ChannelReplies ==
    {ErrorReply} \cup
    { [status |-> "ok", items |-> Items(n, b), totalResults |-> n,
       nextPageToken |-> None] : n \in 0..1, b \in 0..1 }

----------------------------------------------------------------------------
(* The code of YoutubeTool *)

\* variant: a handle is looked up by id as well
ChannelRequest_IdOnly(channel_id) ==
    IF StartsWith(channel_id, <<"U","C">>) \/ StartsWith(channel_id, <<"@">>)
    THEN Some([NoRequest EXCEPT !.resource = "channels", !.id = Some(channel_id)])
    ELSE None

\* the request get_channel_info builds for channel_id, None when it builds none
ChannelRequest(channel_id) ==
    IF StartsWith(channel_id, <<"U","C">>)
    THEN Some([NoRequest EXCEPT !.resource = "channels", !.id = Some(channel_id)])
    ELSE IF StartsWith(channel_id, <<"@">>)
    THEN Some([NoRequest EXCEPT !.resource = "channels", !.forHandle = Some(channel_id)])
    ELSE None

\* variant: the page size ignores what is already accumulated
CurrentMax_NoSubtract(max_results, n) == Min(PageCeiling, max_results)

\* current_max = min(50, max_results - len(lst))
CurrentMax(max_results, n) == Min(PageCeiling, max_results - n)

\* the type= keyword of the three search operations
SearchType(op) ==
    CASE op = "search_channel"  -> "channel"
      [] op = "search_playlist" -> "playlist"
      [] op = "search_videos"   -> "video"

\* variant: the cursor is never passed on
BuildRequest_FirstPage(op, ids, current_max, token) ==
    IF op \in SearchOps
    THEN [NoRequest EXCEPT !.resource = "search", !.type = Some(SearchType(op)),
                           !.maxResults = Some(current_max)]
    ELSE [NoRequest EXCEPT !.resource = "videos", !.id = ids,
                           !.maxResulst = Some(current_max)]

\* the request one loop iteration builds; get_video_info passes current_max
\* under the keyword maxResulst
BuildRequest(op, ids, current_max, token) ==
    IF op \in SearchOps
    THEN [NoRequest EXCEPT !.resource = "search", !.type = Some(SearchType(op)),
                           !.maxResults = Some(current_max), !.pageToken = token]
    ELSE [NoRequest EXCEPT !.resource = "videos", !.id = ids,
                           !.maxResulst = Some(current_max), !.pageToken = token]

\* whether the record class of op accepts the record built from an item:
\*   search_channel builds ChannelInfo without its required country,
\*     view_count, subscriber_count and video_count;
\*   search_videos passes snippet.get("itle"), which is None, as the required
\*     video_title;
\*   get_video_info passes a list as topic_categories, declared str;
\*   search_playlist and get_channel_info pass what the item holds.
Validates(op, complete) ==
    CASE op = "search_channel"   -> FALSE
      [] op = "search_playlist"  -> complete
      [] op = "search_videos"    -> FALSE
      [] op = "get_video_info"   -> FALSE
      [] op = "get_channel_info" -> complete

\* the first item the for loop fails on, 0 when it appends them all
FirstInvalid(op, items) ==
    IF \A i \in 1..Len(items) : Validates(op, items[i]) THEN 0
    ELSE CHOOSE i \in 1..Len(items) :
            /\ ~Validates(op, items[i])
            /\ \A k \in 1..(i - 1) : Validates(op, items[k])

\* the record class an aggregating operation builds from each item
RecordClass(op) ==
    CASE op = "search_channel"  -> "ChannelInfo"
      [] op = "search_playlist" -> "PlaylistInfo"
      [] op = "search_videos"   -> "VideoInfo"
      [] op = "get_video_info"  -> "VideoInfo"

\* lst after appending n records
Appended(l, n, rec) == l \o [i \in 1..n |-> rec]

\* the while condition
WhileCond(l, max_results) == Len(l) < max_results

\* variant: no break when the cursor is missing
LoopContinues_NoBreak(l, max_results, token) == WhileCond(l, max_results)

\* variant: the accumulated count does not end the loop
LoopContinues_IgnoreCount(l, max_results, token) == token # None

\* the loop goes round again: no break, and the while condition holds
LoopContinues(l, max_results, token) == token # None /\ WhileCond(l, max_results)

\* variant: the failure is swallowed and the page is requested again
AfterUpstreamError_Retry == [pc |-> "loop", result |-> NoResult]

\* request.execute() raised inside the loop: nothing catches it
AfterUpstreamError == [pc |-> "done", result |-> Raised("HttpError")]

----------------------------------------------------------------------------
(* Operations *)

\* a tool kit whose service is set and no invocation running yet (the
\* constructor and create_service are outside the model)
Init ==
    /\ pc = "idle"
    /\ call = [op |-> "none", arg |-> <<>>, max_results |-> 0]
    /\ video_ids = None
    /\ lst = <<>>
    /\ total_results = 0
    /\ next_page_token = None
    /\ request = NoRequest
    /\ response = NoResponse
    /\ requests = 0
    /\ result = NoResult
    /\ upstream_pages = 1
    /\ endless = FALSE

\* a new invocation starts with fresh locals
FreshLocals ==
    /\ lst' = <<>>
    /\ total_results' = 0
    /\ next_page_token' = None

\* extreact_video_id(input_str), as the tool "Extract Video Id"
ExtractVideoId(input_str) ==
    /\ pc = "idle"
    /\ call' = [op |-> "extract_video_id", arg |-> input_str, max_results |-> 0]
    /\ result' = Returned(extreact_video_id(input_str))
    /\ pc' = "done"
    /\ FreshLocals
    /\ video_ids' = None
    /\ request' = NoRequest /\ response' = NoResponse /\ requests' = 0
    /\ upstream_pages' = 1 /\ endless' = FALSE

\* get_channel_info(channel_id)
GetChannelInfo(channel_id) ==
    /\ pc = "idle"
    /\ call' = [op |-> "get_channel_info", arg |-> channel_id, max_results |-> 0]
    /\ pc' = "done"
    /\ FreshLocals
    /\ video_ids' = None
    /\ upstream_pages' = 1 /\ endless' = FALSE
    /\ IF ChannelRequest(channel_id) = None
       THEN /\ result' = ErrorString("Invalid Channel ID")
            /\ request' = NoRequest /\ response' = NoResponse /\ requests' = 0
       ELSE /\ request' = ChannelRequest(channel_id)[1]
            /\ requests' = 1
            /\ \E reply \in ChannelReplies :
                /\ response' = reply
                /\ result' =
                     IF reply.status = "error" THEN Raised("HttpError")
                     ELSE IF Len(reply.items) = 0 THEN Raised("IndexError")
                     ELSE IF ~Validates("get_channel_info", reply.items[1])
                     THEN Raised("ValidationError")
                     ELSE ChannelJson

\* the lines of an aggregating operation before its loop, and the return
\* when the loop is not entered
EnterLoop(op, arg, ids, max_results, pages, cyclic) ==
    /\ call' = [op |-> op, arg |-> arg, max_results |-> max_results]
    /\ video_ids' = ids
    /\ FreshLocals
    /\ request' = NoRequest /\ response' = NoResponse /\ requests' = 0
    /\ upstream_pages' = pages /\ endless' = cyclic
    /\ IF WhileCond(<<>>, max_results)
       THEN pc' = "loop" /\ result' = NoResult
       ELSE pc' = "done" /\ result' = Envelope(0, <<>>)

\* search_channel, search_playlist, search_videos up to the loop
Search(op, max_results, pages, cyclic) ==
    /\ pc = "idle"
    /\ EnterLoop(op, <<>>, None, max_results, pages, cyclic)

\* get_video_info(video_ids, max_results) up to the loop
GetVideoInfo(ids, max_results, pages, cyclic) ==
    /\ pc = "idle"
    /\ IF Len(ids) = 1
       THEN IF extreact_video_id(ids) = None
            THEN /\ call' = [op |-> "get_video_info", arg |-> ids,
                             max_results |-> max_results]
                 /\ video_ids' = None
                 /\ result' = ErrorString("Error: Invalid Video ID or Url")
                 /\ pc' = "done"
                 /\ FreshLocals
                 /\ request' = NoRequest /\ response' = NoResponse /\ requests' = 0
                 /\ upstream_pages' = pages /\ endless' = cyclic
            ELSE EnterLoop("get_video_info", ids, extreact_video_id(ids),
                           max_results, pages, cyclic)
       ELSE EnterLoop("get_video_info", ids, Some(ids), max_results, pages, cyclic)

\* one iteration of the while loop, and the return when the loop ends with it
LoopIteration ==
    /\ pc = "loop"
    /\ LET req == BuildRequest(call.op, video_ids,
                               CurrentMax(call.max_results, Len(lst)), next_page_token)
       IN  /\ request' = req
           /\ requests' = CountRequest(requests)
           /\ \E reply \in Replies(req) :
               /\ response' = reply
               /\ IF reply.status = "error"
                  THEN /\ pc' = AfterUpstreamError.pc
                       /\ result' = AfterUpstreamError.result
                       /\ UNCHANGED <<lst, total_results, next_page_token>>
                  ELSE LET bad == FirstInvalid(call.op, reply.items)
                           rec == RecordClass(call.op)
                       IN  IF bad # 0
                           THEN /\ lst' = Appended(lst, bad - 1, rec)
                                /\ pc' = "done"
                                /\ result' = Raised("ValidationError")
                                /\ UNCHANGED <<total_results, next_page_token>>
                           ELSE /\ lst' = Appended(lst, Len(reply.items), rec)
                                /\ total_results' = reply.totalResults
                                /\ next_page_token' = reply.nextPageToken
                                /\ IF LoopContinues(lst', call.max_results,
                                                    reply.nextPageToken)
                                   THEN pc' = "loop" /\ result' = NoResult
                                   ELSE /\ pc' = "done"
                                        /\ result' = Envelope(total_results', lst')
    /\ UNCHANGED <<call, video_ids, upstream_pages, endless>>

\* a tool is invoked when none is running; the enumeration of the inputs is
\* guarded by the test each action makes first
Next ==
    \/ pc = "idle" /\ \E s \in ExtractorInputs : ExtractVideoId(s)
    \/ pc = "idle" /\ \E c \in ChannelIdInputs : GetChannelInfo(c)
    \/ pc = "idle" /\ \E op \in SearchOps, m \in MaxResultsInputs, u \in UpstreamShapes :
                         Search(op, m, u[1], u[2])
    \/ pc = "idle" /\ \E v \in VideoIdInputs, m \in MaxResultsInputs, u \in UpstreamShapes :
                         GetVideoInfo(v, m, u[1], u[2])
    \/ LoopIteration

Spec == Init /\ [][Next]_vars

\* the loop runs on the calling thread until it ends: an iteration that can
\* be taken is taken
FairSpec == Spec /\ WF_vars(LoopIteration)

----------------------------------------------------------------------------
(* Properties *)

IsAggregation == call.op \in AggOps

C2_AtMostOneRequest ==
    (IsAggregation /\ call.max_results <= PageCeiling) => requests <= 1

\* C2, amended: with max_results <= 50 a further page request is issued only
\* after a response that carried a next cursor and left fewer than
\* max_results records accumulated, and it asks for that cursor's page.
C2_FurtherRequestOnlyAfterCursor ==
    [][ (IsAggregation /\ call.max_results <= PageCeiling /\ pc = "loop"
            /\ requests >= 1)
        => /\ response.status = "ok"
           /\ response.nextPageToken # None
           /\ Len(lst) < call.max_results
           /\ request'.pageToken = response.nextPageToken ]_vars

\* C2 witness: max_results <= 50 filled by two page requests
C2_Witness ==
    /\ call.op = "search_playlist"
    /\ call.max_results <= PageCeiling
    /\ requests = 2
    /\ result.kind = "envelope"
    /\ Len(result.records) = call.max_results

\* C3, as stated: every request of an aggregating operation carries the page
\* size min(50, max_results - records accumulated so far), between 1 and 50.
C3_PageSizeSent ==
    [][ (IsAggregation /\ pc = "loop")
        => /\ request'.maxResults =
                 Some(Min(PageCeiling, call.max_results - Len(lst)))
           /\ request'.maxResults[1] \in 1..PageCeiling ]_vars

\* C4, as stated: zero items on the first page end the call at once with an
\* empty envelope carrying that response's total, cursor or no cursor.
C4_EmptyFirstPageEndsCall ==
    (IsAggregation /\ requests = 1 /\ response.status = "ok"
        /\ Len(response.items) = 0)
    => (pc = "done" /\ result = Envelope(response.totalResults, <<>>))

\* C4, amended: zero items on the first page end the call at once with an
\* empty envelope carrying that response's total when that response carries
\* no next cursor.
C4_EmptyLastPageEndsCall ==
    (IsAggregation /\ requests = 1 /\ response.status = "ok"
        /\ Len(response.items) = 0 /\ response.nextPageToken = None)
    => (pc = "done" /\ result = Envelope(response.totalResults, <<>>))

\* C4 witness: an empty first page without cursor that reports a total
C4_Witness ==
    /\ call.op = "search_channel"
    /\ requests = 1
    /\ response.status = "ok"
    /\ Len(response.items) = 0
    /\ response.nextPageToken = None
    /\ response.totalResults > 0
    /\ result.kind = "envelope"

\* the loop is still running only while records are missing and the last
\* response carried a cursor
RunsOnlyWhileDue ==
    (IsAggregation /\ pc = "loop" /\ requests >= 1)
    => (Len(lst) < call.max_results /\ next_page_token # None)

\* an upstream with finitely many pages is asked for each page at most once
PagesAskedOnce == (IsAggregation /\ ~endless) => requests <= upstream_pages

\* C5, as stated: every aggregation call eventually terminates.
C5_AlwaysTerminates == (pc = "loop") ~> (pc = "done")

\* C5, amended: an aggregation call on an upstream with finitely many pages
\* eventually terminates, after at most one request per page; the loop runs
\* on only while records are missing and the last response carried a cursor.
C5_TerminatesOnFiniteUpstream ==
    /\ []RunsOnlyWhileDue
    /\ []PagesAskedOnce
    /\ (pc = "loop" /\ ~endless) ~> (pc = "done")

\* C5 witness: pages of 50, 50 and 12 items with max_results = 200 give 112
\* records after 3 requests
C5_Witness ==
    /\ call.op = "search_playlist"
    /\ call.max_results = 4 * PageCeiling
    /\ ~endless
    /\ upstream_pages = 3
    /\ requests = 3
    /\ Len(response.items) = 12
    /\ result.kind = "envelope"
    /\ Len(result.records) = 2 * PageCeiling + 12

\* C6: the envelope's total_results is the totalResults of the last response
\* received, and 0 when no request was issued, which is when max_results <= 0.
C6_TotalCarriedUnchanged ==
    (IsAggregation /\ result.kind = "envelope")
    => /\ requests = 0 <=> call.max_results <= 0
       /\ requests = 0 => result.total_results = 0
       /\ requests > 0 =>
             /\ response.status = "ok"
             /\ result.total_results = response.totalResults

\* C6 witness: an envelope after two pages whose total differs from its length
C6_Witness ==
    /\ call.op = "search_playlist"
    /\ result.kind = "envelope"
    /\ requests = 2
    /\ result.total_results > 0
    /\ result.total_results # Len(result.records)

\* C7: get_channel_info issues exactly one handle-keyed lookup for "@...",
\* exactly one id-keyed lookup for "UC...", and for anything else returns the
\* error string without a lookup.
C7_ChannelDispatch ==
    (call.op = "get_channel_info" /\ pc = "done")
    => LET c == call.arg
           handle == Len(c) >= 1 /\ c[1] = "@"
           ucid == Len(c) >= 2 /\ c[1] = "U" /\ c[2] = "C"
       IN  /\ handle => /\ requests = 1
                        /\ request.resource = "channels"
                        /\ request.forHandle = Some(c)
                        /\ request.id = None
           /\ ucid => /\ requests = 1
                      /\ request.resource = "channels"
                      /\ request.id = Some(c)
                      /\ request.forHandle = None
           /\ (~handle /\ ~ucid) =>
                 /\ requests = 0
                 /\ request = NoRequest
                 /\ result = ErrorString("Invalid Channel ID")

\* C7 witness: a handle that contains the id prefix is looked up by handle
C7_Witness ==
    /\ call.op = "get_channel_info"
    /\ call.arg = <<"@", "U", "C">>
    /\ requests = 1
    /\ request.forHandle = Some(call.arg)

\* a watch or short URL, scheme and www. optional, whose id has 11 characters
IsUrlWithId(s) ==
    \E scheme \in {<<>>, Http, Https}, www \in {<<>>, Www}, host \in {Watch, Short} :
        LET prefix == scheme \o www \o host
        IN  /\ LitAt(s, 1, prefix)
            /\ Len(s) >= Len(prefix) + IdLen
            /\ \A k \in 1..IdLen : s[Len(prefix) + k] \in IdChars

\* as a whole, a bare id of 11 characters
IsBareId(s) == Len(s) = IdLen /\ \A k \in 1..IdLen : s[k] \in IdChars

\* C8, as stated: the extractor returns not-found for every input that is
\* neither a URL carrying an 11-character id nor as a whole a bare
\* 11-character id, and every id it returns has exactly 11 id characters.
C8_OnlyWholeIds ==
    (call.op = "extract_video_id" /\ pc = "done")
    => /\ (~IsUrlWithId(call.arg) /\ ~IsBareId(call.arg)) => result.value = None
       /\ result.value # None => IsBareId(result.value[1])

\* the error return of get_video_info
InvalidVideoId == ErrorString("Error: Invalid Video ID or Url")

\* C9, as stated: get_video_info passes its string through the extractor;
\* a rejected string (the empty one included) gives the error string and no
\* upstream request, and otherwise requests are keyed by the extracted id.
C9_ExtractorFirst ==
    (call.op = "get_video_info" /\ pc # "idle")
    => IF extreact_video_id(call.arg) = None
       THEN result = InvalidVideoId /\ requests = 0
       ELSE /\ result # InvalidVideoId
            /\ requests >= 1 => request.id = extreact_video_id(call.arg)

\* after a failed page request the call has ended with the exception and
\* nothing of what it had accumulated
FailureEndsCall ==
    (IsAggregation /\ response.status = "error")
    => /\ pc = "done"
       /\ result.kind = "exception"
       /\ result.records = <<>>

\* C10: a failed page request is terminal: no request follows it, no envelope
\* is returned, and the caller gets the failure.
C10_FailureIsTerminal ==
    /\ []FailureEndsCall
    /\ [][response.status # "error"]_vars

\* C10 witness: the third request fails after records were accumulated
C10_Witness ==
    /\ call.op = "search_playlist"
    /\ response.status = "error"
    /\ requests = 3
    /\ Len(lst) > PageCeiling
    /\ result = Raised("HttpError")

====
